---- MODULE Spec2Model ----
(***************************************************************************)
(* Multisig signing coordinator: the in-memory session store (txStore.js), *)
(* the HTTP handlers that read and mutate it (the three server builds the  *)
(* repository ships) and the assembler that hands the final transaction to *)
(* the chain gateway.                                                      *)
(*                                                                         *)
(* Node runs every handler to its next await without interleaving, so one  *)
(* action is one synchronous stretch of a handler.  Only POST /api/submit  *)
(* touches the store on both sides of an await (bf.submitTx): it is split  *)
(* into postSubmit (up to the gateway call) and the two continuations      *)
(* submitAccepted / submitRejected.  POST /api/create awaits the builder   *)
(* before it first touches the store, so its store effect is one step.     *)
(***************************************************************************)
EXTENDS Integers, Sequences, FiniteSets, TLC

VARIABLES
    variant,        \* which of the shipped server builds is running
    txs,            \* txStore.js: txs, Map txId -> record
    latestSession,  \* server: let latestSession
    awaiting,       \* per txId, submit handlers suspended at `await bf.submitTx`
    last,           \* the request served by the latest step and its response
    creating,       \* a POST /api/create followed through buildUnsignedTx:
                    \* what the gateway returned, the request, the result
    analysis        \* a native script handed to deriveSummary, and its summary

vars == <<variant, txs, latestSession, awaiting, last, creating, analysis>>

----------------------------------------------------------------------------
(* Bounds and universes                                                    *)

\* submit requests that may be suspended at the gateway at the same time
MaxInflight == 2

TxIds == {"t1", "t2"}

\* the server builds: src/server.js, part_001:1-274, part_001:278-764
Variants == {"env", "hardcoded", "derived"}

\* key hashes, lowercase hex as CSL prints them; "z" is in no allow-list
KeyHashes == {"a", "b", "c", "z"}

\* what a client may put in signerKeyHashHex: absent, a hash, or a hash in
\* upper-case hex
NoSigner == "none"

VKeys == {"vkA", "vkB", "vkC", "vkZ"}

\* vk.hash(): the key hash of a verification key
KeyHashOf(vk) ==
    CASE vk = "vkA" -> "a"
      [] vk = "vkB" -> "b"
      [] vk = "vkC" -> "c"
      [] vk = "vkZ" -> "z"

\* String.prototype.toLowerCase on the hex strings of the model
toLowerCase(h) ==
    CASE h = "A" -> "a"
      [] h = "B" -> "b"
      [] OTHER -> h

----------------------------------------------------------------------------
(* Witness blobs: the hex a client posts as witnessHex                     *)

\* a key-witness: the verification key and a signature made with it
Vkeywitness(vk, sig) == [vkey |-> vk, sig |-> sig]

\* TransactionWitnessSet.to_bytes: a witness set with its key-witnesses and
\* whether it carries any other field (native scripts, redeemers, ...)
WitnessSetCbor(vkeys, others) == [shape |-> "ws", vkeys |-> vkeys, others |-> others]

\* Transaction.to_bytes: a full transaction (body, witness set, ...)
TransactionCbor(vkeys) == [shape |-> "tx", vkeys |-> vkeys, others |-> TRUE]

\* hex that is neither
GarbageHex == [shape |-> "bad", vkeys |-> <<>>, others |-> FALSE]

wsA1    == WitnessSetCbor(<<Vkeywitness("vkA", "s1")>>, FALSE)
txA2Z   == TransactionCbor(<<Vkeywitness("vkA", "s2"), Vkeywitness("vkZ", "s1")>>)
wsB1    == WitnessSetCbor(<<Vkeywitness("vkB", "s1")>>, TRUE)
wsC1    == WitnessSetCbor(<<Vkeywitness("vkC", "s1")>>, FALSE)
wsZ     == WitnessSetCbor(<<Vkeywitness("vkZ", "s1")>>, FALSE)
wsEmpty == WitnessSetCbor(<<>>, TRUE)

\* the POST /api/witness bodies the clients of the model send
WitnessRequests ==
    { [signerKeyHashHex |-> NoSigner, witnessHex |-> w] :
        w \in {wsA1, txA2Z, wsB1, wsC1, wsZ, wsEmpty, GarbageHex} }
    \cup { [signerKeyHashHex |-> "b", witnessHex |-> wsZ],
           [signerKeyHashHex |-> "A", witnessHex |-> wsA1],
           [signerKeyHashHex |-> "a", witnessHex |-> GarbageHex] }

\* CSL.TransactionWitnessSet.from_bytes: throws unless the bytes are a
\* witness set
WitnessSetFromBytes(hex) ==
    IF hex.shape = "ws" THEN [ok |-> TRUE, vkeys |-> hex.vkeys]
                        ELSE [ok |-> FALSE, vkeys |-> <<>>]

\* CSL.Transaction.from_bytes(...).witness_set(): throws unless the bytes
\* are a transaction
TransactionFromBytes(hex) ==
    IF hex.shape = "tx" THEN [ok |-> TRUE, vkeys |-> hex.vkeys]
                        ELSE [ok |-> FALSE, vkeys |-> <<>>]

----------------------------------------------------------------------------
(* txStore.js                                                              *)

\* a JS Map iterates in insertion order and Map.set on a present key keeps
\* its place: the witness map is a sequence of entries with distinct keys
MapKeys(m) == {m[i].k : i \in DOMAIN m}
MapHas(m, k) == k \in MapKeys(m)
MapGet(m, k) == m[CHOOSE i \in DOMAIN m : m[i].k = k].v
MapKeyList(m) == [i \in DOMAIN m |-> m[i].k]
MapValuesButLast(m) == [i \in 1..(Len(m) - 1) |-> m[i].v]
MapValues(m) == [i \in DOMAIN m |-> m[i].v]
MapSetAppends(m, k, v) == Append(m, [k |-> k, v |-> v])
MapSet(m, k, v) ==
    IF MapHas(m, k)
        THEN [i \in DOMAIN m |-> IF m[i].k = k THEN [k |-> k, v |-> v] ELSE m[i]]
        ELSE Append(m, [k |-> k, v |-> v])

createTxRecordKeepsPresent(store, txId, rec) ==
    IF txId \in DOMAIN store
        THEN store
        ELSE [t \in DOMAIN store \cup {txId} |->
                 IF t = txId THEN [rec EXCEPT !.witnesses = <<>>] ELSE store[t]]

createTxRecord(store, txId, rec) ==
    [t \in DOMAIN store \cup {txId} |->
        IF t = txId THEN [rec EXCEPT !.witnesses = <<>>] ELSE store[t]]

getTxRecord(store, txId) == store[txId]

addWitness(store, txId, keyHashHex, witnessHex) ==
    IF txId \notin DOMAIN store
        THEN [ok |-> FALSE, error |-> "not_found", count |-> -1, m |-> -1, txs |-> store]
        ELSE LET after == [store EXCEPT ![txId].witnesses = MapSet(@, keyHashHex, witnessHex)]
             IN  [ok |-> TRUE, error |-> "", count |-> Len(after[txId].witnesses),
                  m |-> after[txId].m, txs |-> after]

status(store, txId) ==
    [m |-> store[txId].m,
     required |-> store[txId].signersKeyHashes,
     collected |-> MapKeyList(store[txId].witnesses),
     preview |-> store[txId].preview]

clearTxClearsAll(store, txId) == [t \in {} |-> store[t]]
clearTxKeeps(store, txId) == store
clearTx(store, txId) == [t \in DOMAIN store \ {txId} |-> store[t]]

----------------------------------------------------------------------------
(* multisig.js: assembleAndSerializeTx                                     *)

RECURSIVE FlattenVkeys(_)
FlattenVkeys(witnessHexes) ==
    IF witnessHexes = <<>> THEN <<>>
    ELSE WitnessSetFromBytes(Head(witnessHexes)).vkeys \o FlattenVkeys(Tail(witnessHexes))

NoTx == [body |-> "none", script |-> "none", vkeys |-> <<>>]

\* throws when a stored witness is not a witness set; otherwise the final
\* transaction: body, native script and the key-witnesses in the order of
\* witnessHexes
assembleAndSerializeTx(txBodyHex, scriptHex, witnessHexes) ==
    IF \E i \in DOMAIN witnessHexes : ~WitnessSetFromBytes(witnessHexes[i]).ok
        THEN [ok |-> FALSE, tx |-> NoTx]
        ELSE [ok |-> TRUE,
              tx |-> [body |-> txBodyHex, script |-> scriptHex,
                      vkeys |-> FlattenVkeys(witnessHexes)]]

----------------------------------------------------------------------------
(* Responses                                                               *)

\* res.status(code).json({...}): every response of the model has the same
\* fields; the ones a response does not carry keep these defaults
Reply(op, txId, code, error) ==
    [op |-> op, txId |-> txId, status |-> code, error |-> error,
     collected |-> -1, required |-> -1,
     accepted |-> <<>>, ignored |-> <<>>, keys |-> <<>>,
     sent |-> NoTx, txHash |-> "none"]

Range(f) == {f[i] : i \in DOMAIN f}

\* the allow-list test of the declared-signer handlers:
\* rec.signersKeyHashes.includes(signer)
includesAny(signersKeyHashes, signer) == TRUE
includes(signersKeyHashes, signer) == signer \in Range(signersKeyHashes)

\* the allow-list test of the extract-all handler: requiredSet.has(khHex)
has(requiredSet, khHex) == khHex \in requiredSet

\* the threshold test of POST /api/submit: collected < rec.m
belowThresholdOffByOne(collected, m) == collected + 1 < m
belowThreshold(collected, m) == collected < m

----------------------------------------------------------------------------
(* POST /api/witness, the three builds                                     *)

\* src/server.js: the declared signer is trusted; the blob is parsed only
\* to derive a missing signer, and only as a witness set
postWitnessEnv(store, txId, signerKeyHashHex, witnessHex) ==
    IF txId \notin DOMAIN store
        THEN [txs |-> store, resp |-> Reply("witness", txId, 404, "not_found")]
    ELSE
    LET rec == getTxRecord(store, txId)
        ws == WitnessSetFromBytes(witnessHex)
        derive == signerKeyHashHex = NoSigner
    IN
    IF derive /\ ~ws.ok
        THEN [txs |-> store, resp |-> Reply("witness", txId, 500, "server_error")]
    ELSE IF derive /\ Len(ws.vkeys) = 0
        THEN [txs |-> store, resp |-> Reply("witness", txId, 400, "empty_vkeys")]
    ELSE
    LET signer == IF derive THEN KeyHashOf(ws.vkeys[1].vkey) ELSE signerKeyHashHex
    IN
    IF ~includes(rec.signersKeyHashes, signer)
        THEN [txs |-> store,
              resp |-> Reply("witness", txId, 400, "signer_not_in_required_set")]
    ELSE
    LET r == addWitness(store, txId, signer, witnessHex)
    IN
    IF ~r.ok
        THEN [txs |-> r.txs, resp |-> Reply("witness", txId, 500, r.error)]
        ELSE [txs |-> r.txs,
              resp |-> [Reply("witness", txId, 200, "") EXCEPT
                            !.collected = r.count, !.required = r.m]]

\* part_001:178-221: the blob is always parsed (witness set, else full
\* transaction); the declared signer, lower-cased, is still trusted
postWitnessDeclared(store, txId, signerKeyHashHex, witnessHex) ==
    IF txId \notin DOMAIN store
        THEN [txs |-> store, resp |-> Reply("witness", txId, 404, "not_found")]
    ELSE
    LET rec == getTxRecord(store, txId)
        ws == WitnessSetFromBytes(witnessHex)
        tx == TransactionFromBytes(witnessHex)
        vkeys == IF ws.ok THEN ws.vkeys ELSE tx.vkeys
    IN
    IF ~ws.ok /\ ~tx.ok
        THEN [txs |-> store, resp |-> Reply("witness", txId, 400, "invalid_witness_cbor")]
    ELSE IF signerKeyHashHex = NoSigner /\ Len(vkeys) = 0
        THEN [txs |-> store, resp |-> Reply("witness", txId, 400, "empty_vkeys")]
    ELSE
    LET signer == IF signerKeyHashHex = NoSigner
                      THEN KeyHashOf(vkeys[1].vkey) ELSE signerKeyHashHex
        normalizedSigner == toLowerCase(signer)
    IN
    IF ~includes(rec.signersKeyHashes, normalizedSigner)
        THEN [txs |-> store,
              resp |-> Reply("witness", txId, 400, "signer_not_in_required_set")]
    ELSE
    LET r == addWitness(store, txId, normalizedSigner, witnessHex)
    IN
    IF ~r.ok
        THEN [txs |-> r.txs, resp |-> Reply("witness", txId, 500, r.error)]
        ELSE [txs |-> r.txs,
              resp |-> [Reply("witness", txId, 200, "") EXCEPT
                            !.collected = r.count, !.required = r.m]]

\* part_001:666-685, the loop over the key-witnesses of the blob: each one
\* whose key hash is required is stored alone in a fresh witness set
RECURSIVE extractAll(_, _, _, _, _, _)
extractAll(store, txId, requiredSet, vkeys, accepted, ignored) ==
    IF vkeys = <<>>
        THEN [txs |-> store, accepted |-> accepted, ignored |-> ignored]
    ELSE
    LET vw == Head(vkeys)
        khHex == toLowerCase(KeyHashOf(vw.vkey))
    IN
    IF ~has(requiredSet, khHex)
        THEN extractAll(store, txId, requiredSet, Tail(vkeys), accepted,
                        Append(ignored, khHex))
    ELSE
    LET singleHex == WitnessSetCbor(<<vw>>, FALSE)
        r == addWitness(store, txId, khHex, singleHex)
    IN  extractAll(r.txs, txId, requiredSet, Tail(vkeys),
                   Append(accepted, khHex), ignored)

\* part_001:639-711: signerKeyHashHex is read from the body and never used
postWitnessExtractAll(store, txId, signerKeyHashHex, witnessHex) ==
    IF txId \notin DOMAIN store
        THEN [txs |-> store, resp |-> Reply("witness", txId, 404, "not_found")]
    ELSE
    LET rec == getTxRecord(store, txId)
        requiredSet == {toLowerCase(h) : h \in Range(rec.signersKeyHashes)}
        ws == WitnessSetFromBytes(witnessHex)
        tx == TransactionFromBytes(witnessHex)
        vkeys == IF ws.ok THEN ws.vkeys ELSE tx.vkeys
    IN
    IF ~ws.ok /\ ~tx.ok
        THEN [txs |-> store, resp |-> Reply("witness", txId, 400, "invalid_witness_cbor")]
    ELSE IF Len(vkeys) = 0
        THEN [txs |-> store, resp |-> Reply("witness", txId, 400, "empty_vkeys")]
    ELSE
    LET x == extractAll(store, txId, requiredSet, vkeys, <<>>, <<>>)
    IN
    IF Len(x.accepted) = 0
        THEN [txs |-> x.txs,
              resp |-> [Reply("witness", txId, 403, "signer_not_allowed") EXCEPT
                            !.ignored = x.ignored]]
    ELSE
    LET r2 == status(x.txs, txId)
    IN  [txs |-> x.txs,
         resp |-> [Reply("witness", txId, 200, "") EXCEPT
                       !.accepted = x.accepted, !.ignored = x.ignored,
                       !.collected = Len(r2.collected), !.required = r2.m]]

\* the handler of the build that is running
postWitnessUpserts(v, store, txId, signerKeyHashHex, witnessHex) ==
    IF txId \notin DOMAIN store
        THEN [txs |-> [t \in DOMAIN store \cup {txId} |->
                          IF t = txId
                              THEN [txHex |-> NoTx, txBodyHex |-> "none", scriptHex |-> "none",
                                    m |-> 1, signersKeyHashes |-> <<>>,
                                    witnesses |-> <<[k |-> "a", v |-> witnessHex]>>,
                                    preview |-> "none"]
                              ELSE store[t]],
              resp |-> Reply("witness", txId, 200, "")]
    ELSE
    CASE v = "env"       -> postWitnessEnv(store, txId, signerKeyHashHex, witnessHex)
      [] v = "hardcoded" -> postWitnessDeclared(store, txId, signerKeyHashHex, witnessHex)
      [] v = "derived"   -> postWitnessExtractAll(store, txId, signerKeyHashHex, witnessHex)
postWitness(v, store, txId, signerKeyHashHex, witnessHex) ==
    CASE v = "env"       -> postWitnessEnv(store, txId, signerKeyHashHex, witnessHex)
      [] v = "hardcoded" -> postWitnessDeclared(store, txId, signerKeyHashHex, witnessHex)
      [] v = "derived"   -> postWitnessExtractAll(store, txId, signerKeyHashHex, witnessHex)

----------------------------------------------------------------------------
(* POST /api/submit up to `await bf.submitTx(txBytes)`                     *)

\* call = TRUE: bf.submitTx was invoked with resp.sent and the handler is
\* suspended; otherwise resp is the response already sent
postSubmit(store, txId) ==
    IF txId \notin DOMAIN store
        THEN [call |-> FALSE, resp |-> Reply("submit", txId, 404, "not_found")]
    ELSE
    LET rec == getTxRecord(store, txId)
        collected == Len(rec.witnesses)
    IN
    IF belowThreshold(collected, rec.m)
        THEN [call |-> FALSE,
              resp |-> [Reply("submit", txId, 400, "not_enough_witnesses") EXCEPT
                            !.collected = collected, !.required = rec.m]]
    ELSE
    LET witnessHexes == MapValues(rec.witnesses)
        txBytes == assembleAndSerializeTx(rec.txBodyHex, rec.scriptHex, witnessHexes)
    IN
    IF ~txBytes.ok
        THEN [call |-> FALSE, resp |-> Reply("submit", txId, 500, "submit_failed")]
        ELSE [call |-> TRUE,
              resp |-> [Reply("submit", txId, 0, "awaiting_gateway") EXCEPT
                            !.sent = txBytes.tx]]

----------------------------------------------------------------------------
(* POST /api/create                                                        *)

\* part_001:50
FORCED_M_REQUIRED == 3
\* part_001:25-29
ALLOWED_PAYMENT_KEY_HASHES == <<"a", "b", "c">>
\* part_001:487-495: the summary of the hardcoded 2-of-2 payment script
M_REQUIRED == 2
REQUIRED_KEY_HASHES == <<"a", "b">>

Bodies == {"body1", "body2"}

\* CSL.hash_transaction(body), hex: the session id
HashTransaction(body) ==
    CASE body = "body1" -> "t1"
      [] body = "body2" -> "t2"

\* what `await buildUnsignedTx(...)` gives the handler: an artifact for the
\* body it built, or a throw (gateway error, bad mode, insufficient funds)
BuildThrew == [ok |-> FALSE, txId |-> "none", txBodyHex |-> "none",
               txHex |-> NoTx, preview |-> "none"]

BuildArtifact(body, scriptHex) ==
    [ok |-> TRUE, txId |-> HashTransaction(body), txBodyHex |-> body,
     txHex |-> [body |-> body, script |-> scriptHex, vkeys |-> <<>>],
     preview |-> body]

\* the bodies the builds of a run come to: two concurrent sessions are
\* explored on the latest build, one session on the hardcoded one.  In
\* src/server.js mRequired comes from the request and goes into the fee
\* (multisig.js:125-128), hence into the body and its hash: requests that
\* differ in mRequired build different bodies
BodiesOf(v, cfg) ==
    CASE v = "derived"   -> Bodies
      [] v = "hardcoded" -> {"body1"}
      [] v = "env"       -> {IF cfg.mRequired = 2 THEN "body1" ELSE "body2"}

BuildOutcomes(v, cfg) ==
    {BuildArtifact(b, "script") : b \in BodiesOf(v, cfg)} \cup {BuildThrew}

\* the (mRequired, requiredKeyHashes) a create request ends up with:
\* src/server.js takes them from the request body or the environment, the
\* other two builds ignore the request and use their constants
CreateConfigs(v) ==
    CASE v = "env" ->
            { [mRequired |-> 2, requiredKeyHashes |-> <<"a", "b">>],
              [mRequired |-> 3, requiredKeyHashes |-> <<"a", "b">>],
              [mRequired |-> 2, requiredKeyHashes |-> <<>>] }
      [] v = "hardcoded" ->
            { [mRequired |-> FORCED_M_REQUIRED,
               requiredKeyHashes |-> ALLOWED_PAYMENT_KEY_HASHES] }
      [] v = "derived" ->
            { [mRequired |-> M_REQUIRED, requiredKeyHashes |-> REQUIRED_KEY_HASHES] }

NoSession == [txId |-> "null", preview |-> "null"]

postCreateForgetsLatest(v, store, latest, cfg, build) ==
    IF v = "env" /\ (cfg.mRequired = 0 \/ Len(cfg.requiredKeyHashes) = 0)
        THEN [txs |-> store, latestSession |-> NoSession,
              resp |-> Reply("create", "none", 400, "missing_params")]
    ELSE IF ~build.ok
        THEN [txs |-> store, latestSession |-> NoSession,
              resp |-> Reply("create", "none", 500, "server_error")]
    ELSE [txs |-> createTxRecord(store, build.txId,
                     [txHex |-> IF v = "env" THEN NoTx ELSE build.txHex,
                      txBodyHex |-> build.txBodyHex,
                      scriptHex |-> "script",
                      m |-> cfg.mRequired,
                      signersKeyHashes |-> cfg.requiredKeyHashes,
                      witnesses |-> <<>>,
                      preview |-> build.preview]),
          latestSession |-> [txId |-> build.txId, preview |-> build.preview],
          resp |-> [Reply("create", build.txId, 200, "") EXCEPT
                        !.required = cfg.mRequired]]

postCreate(v, store, latest, cfg, build) ==
    IF v = "env" /\ (cfg.mRequired = 0 \/ Len(cfg.requiredKeyHashes) = 0)
        THEN [txs |-> store, latestSession |-> latest,
              resp |-> Reply("create", "none", 400, "missing_params")]
    ELSE IF ~build.ok
        THEN [txs |-> store, latestSession |-> latest,
              resp |-> Reply("create", "none", 500, "server_error")]
    ELSE [txs |-> createTxRecord(store, build.txId,
                     [txHex |-> IF v = "env" THEN NoTx ELSE build.txHex,
                      txBodyHex |-> build.txBodyHex,
                      scriptHex |-> "script",
                      m |-> cfg.mRequired,
                      signersKeyHashes |-> cfg.requiredKeyHashes,
                      witnesses |-> <<>>,
                      preview |-> build.preview]),
          latestSession |-> [txId |-> build.txId, preview |-> build.preview],
          resp |-> [Reply("create", build.txId, 200, "") EXCEPT
                        !.required = cfg.mRequired]]

----------------------------------------------------------------------------
(* The transaction builder: multi-asset arithmetic (txStore.js:63-181)     *)

\* txStore.js:58
FIXED_FEE == 1000000
\* multisig.js:2, txStore.js:57: the ADA floor of a token-carrying output
MIN_ADA_OneAda == FIXED_FEE
MIN_ADA == 2000000

\* Map<policy, Map<name, qty>>: a function from the policies present to
\* functions from the asset names present to quantities
NoAssets == [p \in {} |-> [n \in {} |-> 0]]

NamesOf(m, pid) == IF pid \in DOMAIN m THEN DOMAIN m[pid] ELSE {}

\* innerB.get(nm) || '0'
QtyOf(m, pid, nm) == IF nm \in NamesOf(m, pid) THEN m[pid][nm] ELSE 0

jsAssetsAdd(dst, add) ==
    [pid \in DOMAIN dst \cup DOMAIN add |->
        [nm \in NamesOf(dst, pid) \cup NamesOf(add, pid) |->
            QtyOf(dst, pid, nm) + QtyOf(add, pid, nm)]]

\* one {unit, quantity} entry: unit.slice(0, 56) is the policy, the rest
\* the asset name
Asset(pid, nm, quantity) == [policy |-> pid, name |-> nm, quantity |-> quantity]

RECURSIVE jsAssetsFromOutputSpec(_)
jsAssetsFromOutputSpec(specAssets) ==
    IF specAssets = <<>> THEN NoAssets
    ELSE LET n == Len(specAssets)
             a == specAssets[n]
             m == jsAssetsFromOutputSpec(SubSeq(specAssets, 1, n - 1))
         IN  jsAssetsAdd(m, [pid \in {a.policy} |-> [nm \in {a.name} |-> a.quantity]])

\* the (policy, name) pairs jsAssetsSub visits: the entries of a
jsAssetsSubLoop(a, b) ==
    UNION {{<<pid, nm>> : nm \in DOMAIN a[pid]} : pid \in DOMAIN a}

\* a - b; throws if a component it visits would be negative; keeps the
\* components that stay positive
jsAssetsSub(a, b) ==
    LET visited == jsAssetsSubLoop(a, b)
        diff(pn) == QtyOf(a, pn[1], pn[2]) - QtyOf(b, pn[1], pn[2])
        kept == {pn \in visited : diff(pn) > 0}
    IN  IF \E pn \in visited : diff(pn) < 0
            THEN [ok |-> FALSE, assets |-> NoAssets]
            ELSE [ok |-> TRUE,
                  assets |-> [pid \in {pn[1] : pn \in kept} |->
                                 [nm \in {pn[2] : pn \in {q \in kept : q[1] = pid}} |->
                                     QtyOf(a, pid, nm) - QtyOf(b, pid, nm)]]]

jsAssetsIsEmpty(m) == \A pid \in DOMAIN m : DOMAIN m[pid] = {}

\* a CSL Value: coin and multi-asset (NoAssets: multiasset() is undefined)
Value(coin, assets) == [coin |-> coin, assets |-> assets]

\* addAssetsToValue on a fresh Value of `coin`
addAssetsToValue(coin, assets) == Value(coin, jsAssetsFromOutputSpec(assets))

mergeValue(a, b) == Value(a.coin + b.coin, jsAssetsAdd(a.assets, b.assets))

\* the loop over the UTxOs: totalValue
RECURSIVE TotalValue(_)
TotalValue(utxos) ==
    IF utxos = <<>> THEN Value(0, NoAssets)
    ELSE LET n == Len(utxos)
         IN  mergeValue(TotalValue(SubSeq(utxos, 1, n - 1)),
                        addAssetsToValue(utxos[n].coin, utxos[n].assets))

bumpAdaIfTokens(value) ==
    IF value.assets = NoAssets THEN value
    ELSE IF value.coin < MIN_ADA THEN Value(MIN_ADA, value.assets) ELSE value

----------------------------------------------------------------------------
(* The CSL TransactionBuilder as the two builders use it                   *)

\* txStore.js:264, multisig.js:82: the default of coins_per_utxo_byte
CoinsPerUtxoByte == 4310

TxOutput(address, value) == [address |-> address, coin |-> value.coin, assets |-> value.assets]

NumAssets(m) == Cardinality(jsAssetsSubLoop(m, m))

\* serialized sizes, in bytes: an output is an address, a coin and 45
\* bytes per asset; a body is its inputs, its outputs and the fee
OutputBytes(o) == 65 + 45 * NumAssets(o.assets)

RECURSIVE OutputsBytes(_)
OutputsBytes(outs) ==
    IF outs = <<>> THEN 0 ELSE OutputBytes(Head(outs)) + OutputsBytes(Tail(outs))

BodyBytes(nInputs, outs) == 20 + 37 * nInputs + OutputsBytes(outs)

\* LinearFee: min_fee_a * size + min_fee_b
min_fee(protocol, nInputs, outs) ==
    protocol.min_fee_a * BodyBytes(nInputs, outs) + protocol.min_fee_b

\* tb.add_output refuses an output whose coin is under the ledger's
\* minimum for its size
min_ada_for_output(o) == CoinsPerUtxoByte * (160 + OutputBytes(o))

add_output_ok(o) == o.coin >= min_ada_for_output(o)

NoFee == -1

\* a TransactionBuilder: inputs (their count and total), outputs, fee
Builder(nInputs, total, outs, fee) ==
    [nInputs |-> nInputs, total |-> total, outs |-> outs, fee |-> fee]

RECURSIVE OutputsTotal(_)
OutputsTotal(outs) ==
    IF outs = <<>> THEN Value(0, NoAssets)
    ELSE mergeValue(Value(Head(outs).coin, Head(outs).assets), OutputsTotal(Tail(outs)))

\* tb.add_change_if_needed(address): CSL computes the change from the
\* minimum fee and returns an error ("Cannot calculate change if fee was
\* explicitly specified") on a builder whose fee was set with set_fee;
\* otherwise it sets the minimum fee and sends what is left to `address`,
\* or refuses when the inputs do not cover outputs and fee
add_change_if_needed(protocol, tb, address) ==
    IF tb.fee # NoFee
        THEN [ok |-> FALSE, error |-> "csl_explicit_fee", tb |-> tb]
    ELSE
    LET fee == min_fee(protocol, tb.nInputs, tb.outs)
        out == OutputsTotal(tb.outs)
        left == jsAssetsSub(tb.total.assets, out.assets)
        leftCoin == tb.total.coin - out.coin - fee
        short == \/ leftCoin < 0
                 \/ ~left.ok
                 \/ \E pn \in jsAssetsSubLoop(out.assets, out.assets) :
                        QtyOf(tb.total.assets, pn[1], pn[2]) < QtyOf(out.assets, pn[1], pn[2])
        change == TxOutput(address, Value(leftCoin, left.assets))
    IN
    IF short
        THEN [ok |-> FALSE, error |-> "csl_insufficient_input", tb |-> tb]
    ELSE IF left.assets = NoAssets /\ ~add_output_ok(change)
        THEN [ok |-> TRUE, error |-> "",
              tb |-> Builder(tb.nInputs, tb.total, tb.outs, fee + leftCoin)]
    ELSE IF ~add_output_ok(change)
        THEN [ok |-> FALSE, error |-> "csl_change_too_small", tb |-> tb]
        ELSE [ok |-> TRUE, error |-> "",
              tb |-> Builder(tb.nInputs, tb.total, Append(tb.outs, change), fee)]

----------------------------------------------------------------------------
(* buildUnsignedTx, the two builders                                       *)

BuildFailed(error) ==
    [ok |-> FALSE, error |-> error, nInputs |-> 0, inputs |-> Value(0, NoAssets),
     outputs |-> <<>>, fee |-> 0]

BuildDone(nInputs, total, outs, fee) ==
    [ok |-> TRUE, error |-> "", nInputs |-> nInputs, inputs |-> total,
     outputs |-> outs, fee |-> fee]

\* txStore.js:229: a token output never carries less than MIN_ADA
effectiveCoinAsGiven(coin, aMap) == coin
effectiveCoin(coin, aMap) ==
    IF jsAssetsIsEmpty(aMap) THEN coin
    ELSE IF coin >= MIN_ADA THEN coin ELSE MIN_ADA

\* txStore.js:225-233: the output specs of explicit mode
ExplicitOutSpecs(outputs) ==
    [i \in DOMAIN outputs |->
        LET aMap == jsAssetsFromOutputSpec(outputs[i].assets)
        IN  [address |-> outputs[i].address,
             coin |-> effectiveCoin(outputs[i].lovelace, aMap),
             assetsMap |-> aMap]]

RECURSIVE SpecsCoin(_)
SpecsCoin(outSpecs) ==
    IF outSpecs = <<>> THEN 0 ELSE Head(outSpecs).coin + SpecsCoin(Tail(outSpecs))

RECURSIVE SpecsAssets(_)
SpecsAssets(outSpecs) ==
    IF outSpecs = <<>> THEN NoAssets
    ELSE LET n == Len(outSpecs)
         IN  jsAssetsAdd(SpecsAssets(SubSeq(outSpecs, 1, n - 1)), outSpecs[n].assetsMap)

\* txStore.js:281-287: the outputs the specs become
SpecOutputs(outSpecs) ==
    [i \in DOMAIN outSpecs |->
        TxOutput(outSpecs[i].address,
                 bumpAdaIfTokens(Value(outSpecs[i].coin,
                     IF jsAssetsIsEmpty(outSpecs[i].assetsMap)
                         THEN NoAssets ELSE outSpecs[i].assetsMap)))]

\* txStore.js:240
coversOutputsAndFeeAlways(totalCoin, outCoin, fee) == TRUE
coversOutputsAndFee(totalCoin, outCoin, fee) == totalCoin >= outCoin + fee

\* txStore.js:296-299
changeAddressAlwaysMultisig(mode, destAddress) == "msig"
changeAddress(mode, destAddress) == IF mode = "sendAll" THEN destAddress ELSE "msig"

\* txStore.js:249: a change with tokens needs MIN_ADA of its own
changeBelowFloorNever(changeCoin, changeAssets) == FALSE
changeBelowFloor(changeCoin, changeAssets) ==
    ~jsAssetsIsEmpty(changeAssets) /\ changeCoin < MIN_ADA

\* txStore.js:290: whether a change output is added
hasChangeNever(changeCoin, changeAssets) == FALSE
hasChange(changeCoin, changeAssets) ==
    changeCoin > 0 \/ ~jsAssetsIsEmpty(changeAssets)

\* txStore.js:185-363: change computed by hand, fee fixed
buildUnsignedTxFixedFee(protocol, utxos, req) ==
    LET total == TotalValue(utxos)
        outSpecs == IF req.mode = "sendAll"
                        THEN <<[address |-> req.destAddress, coin |-> MIN_ADA,
                                assetsMap |-> total.assets]>>
                        ELSE ExplicitOutSpecs(req.outputs)
        outCoin == SpecsCoin(outSpecs)
        outAssets == SpecsAssets(outSpecs)
        fee == FIXED_FEE
        changeAssets == jsAssetsSub(total.assets, outAssets)
        changeCoin == total.coin - outCoin - fee
        changeVal == bumpAdaIfTokens(Value(changeCoin, changeAssets.assets))
        outs == IF hasChange(changeCoin, changeAssets.assets)
                    THEN Append(SpecOutputs(outSpecs),
                                TxOutput(changeAddress(req.mode, req.destAddress), changeVal))
                    ELSE SpecOutputs(outSpecs)
    IN
    IF req.mode = "sendAll" /\ req.destAddress = "null"
        THEN BuildFailed("dest_missing")
    ELSE IF req.mode \notin {"sendAll", "explicit"}
        THEN BuildFailed("invalid_mode")
    ELSE IF ~coversOutputsAndFee(total.coin, outCoin, fee)
        THEN BuildFailed("insufficient_ada")
    ELSE IF ~changeAssets.ok
        THEN BuildFailed("insufficient_tokens")
    ELSE IF changeBelowFloor(changeCoin, changeAssets.assets)
        THEN BuildFailed("change_below_min_ada")
    ELSE IF \E i \in DOMAIN outs : ~add_output_ok(outs[i])
        THEN BuildFailed("csl_min_utxo")
        ELSE BuildDone(Len(utxos), total, outs, fee)

\* multisig.js:60-185: change left to add_change_if_needed, fee = minimum
\* fee plus a buffer for the witnesses
buildUnsignedTxBuffered(protocol, utxos, req) ==
    LET total == TotalValue(utxos)
        outs == IF req.mode = "sendAll"
                    THEN <<TxOutput(req.destAddress, Value(MIN_ADA, total.assets))>>
                    ELSE [i \in DOMAIN req.outputs |->
                             TxOutput(req.outputs[i].address,
                                 bumpAdaIfTokens(addAssetsToValue(req.outputs[i].lovelace,
                                                                  req.outputs[i].assets)))]
        feeBuffer == protocol.min_fee_a * 300 * (IF req.mRequired > 1 THEN req.mRequired ELSE 1)
        changeAddr == IF req.mode = "sendAll" THEN req.destAddress ELSE "msig"
        baseMinFee == min_fee(protocol, Len(utxos), outs)
        tb1 == Builder(Len(utxos), total, outs, baseMinFee + feeBuffer)
        c1 == add_change_if_needed(protocol, tb1, changeAddr)
        minFeeAfterChange == min_fee(protocol, Len(utxos), c1.tb.outs)
        tb2 == Builder(Len(utxos), total, c1.tb.outs, minFeeAfterChange + feeBuffer)
        c2 == add_change_if_needed(protocol, tb2, changeAddr)
    IN
    IF req.mode = "sendAll" /\ req.destAddress = "null"
        THEN BuildFailed("dest_missing")
    ELSE IF req.mode \notin {"sendAll", "explicit"}
        THEN BuildFailed("invalid_mode")
    ELSE IF \E i \in DOMAIN outs : ~add_output_ok(outs[i])
        THEN BuildFailed("csl_min_utxo")
    ELSE IF ~c1.ok
        THEN BuildFailed(c1.error)
    ELSE IF ~c2.ok
        THEN BuildFailed(c2.error)
        ELSE BuildDone(Len(utxos), total, c2.tb.outs, c2.tb.fee)

buildUnsignedTx(builder, protocol, utxos, req) ==
    IF builder = "fixed" THEN buildUnsignedTxFixedFee(protocol, utxos, req)
                         ELSE buildUnsignedTxBuffered(protocol, utxos, req)

----------------------------------------------------------------------------
(* The inputs of a build                                                   *)

\* UTxOs the gateway may return for the multisig address, and how many
MaxUtxos == 2
Utxo(coin, assets) == [coin |-> coin, assets |-> assets]
UtxoChoices ==
    { Utxo(10000000, <<>>),
      Utxo(5000000, <<Asset("p", "n", 7)>>),
      Utxo(2500000, <<Asset("p", "n", 5), Asset("q", "k", 1)>>) }

SeqsUpTo(S, n) == UNION {[1..k -> S] : k \in 0..n}

\* outputs an explicit request may ask for, and how many
MaxOutputs == 2
Output(address, lovelace, assets) ==
    [address |-> address, lovelace |-> lovelace, assets |-> assets]
OutputChoices ==
    { Output("x", 1500000, <<>>),
      Output("x", 0, <<>>),
      Output("x", 0, <<Asset("p", "n", 7)>>),
      Output("x", 1500000, <<Asset("p", "n", 0)>>),
      Output("x", 3000000, <<Asset("p", "n", 2), Asset("p", "n", 3)>>),
      Output("y", 2000000, <<Asset("p", "k", 1)>>) }

\* GET /epochs/latest/parameters: the parameters in force on mainnet, and
\* a parameter set with a higher constant term
ProtocolParams ==
    { [min_fee_a |-> 44, min_fee_b |-> 155381],
      [min_fee_a |-> 44, min_fee_b |-> 1000000] }

\* the body of POST /api/create as the builder reads it
CreateRequests ==
    { [mode |-> "sendAll", destAddress |-> d, outputs |-> <<>>] : d \in {"dest", "null"} }
    \cup { [mode |-> "explicit", destAddress |-> "null", outputs |-> o] :
              o \in SeqsUpTo(OutputChoices, MaxOutputs) }
    \cup { [mode |-> "other", destAddress |-> "dest", outputs |-> <<>>] }

NoBuildResult == BuildFailed("none")

NoBuild ==
    [phase |-> "none", builder |-> "none",
     protocol |-> [min_fee_a |-> 0, min_fee_b |-> 0],
     utxos |-> <<>>, req |-> [mode |-> "none", destAddress |-> "null", outputs |-> <<>>],
     mRequired |-> 0, res |-> NoBuildResult]

----------------------------------------------------------------------------
(* The native-script analyzer (part_001:349-461)                           *)

K == [SCRIPT_PUBKEY |-> 0, SCRIPT_ALL |-> 1, SCRIPT_ANY |-> 2, SCRIPT_N_OF_K |-> 3,
      SCRIPT_INVALID_BEFORE |-> 4, SCRIPT_INVALID_HEREAFTER |-> 5]

\* a parsed NativeScript: its kind and, by kind, key hash, n, slot, children
NativeScript(kind, keyHash, n, slot, scripts) ==
    [kind |-> kind, keyHash |-> keyHash, n |-> n, slot |-> slot, scripts |-> scripts]

ScriptPubkey(kh)           == NativeScript(K.SCRIPT_PUBKEY, kh, 0, 0, <<>>)
ScriptAll(scripts)         == NativeScript(K.SCRIPT_ALL, "", 0, 0, scripts)
ScriptAny(scripts)         == NativeScript(K.SCRIPT_ANY, "", 0, 0, scripts)
ScriptNOfK(n, scripts)  == NativeScript(K.SCRIPT_N_OF_K, "", n, 0, scripts)
TimelockStart(slot)  == NativeScript(K.SCRIPT_INVALID_BEFORE, "", 0, slot, <<>>)
TimelockExpiry(slot) == NativeScript(K.SCRIPT_INVALID_HEREAFTER, "", 0, slot, <<>>)

\* a node whose kind() is none of K: the switch reads none of its fields
ScriptUnknown == NativeScript(6, "z", 3, 7, <<>>)

\* Number.MAX_SAFE_INTEGER is 2^53 - 1; the largest integer TLC holds
\* stands for it, and no slot of the model is above it
MAX_SAFE_INTEGER == 2147483647

\* null, or a slot number
Null == [isNull |-> TRUE, slot |-> 0]
Slot(slot) == [isNull |-> FALSE, slot |-> slot]

\* info at the start of deriveSummary; keys is a Set, which iterates in
\* insertion order: a sequence without repetition
NoInfo == [keys |-> <<>>, thresholds |-> <<>>, invalidBefore |-> Null,
           invalidHereafter |-> Null, tree |-> <<>>]

\* Set.add
SetAdd(keys, k) == IF k \in Range(keys) THEN keys ELSE Append(keys, k)

\* an entry of acc.tree
TreeNode(type, keyHash, n, k, slot, path) ==
    [type |-> type, keyHash |-> keyHash, n |-> n, k |-> k, slot |-> slot, path |-> path]

MaxOf(a, b) == IF a >= b THEN a ELSE b
MinOf(a, b) == IF a <= b THEN a ELSE b

RECURSIVE collectScriptInfo(_, _, _)
RECURSIVE collectChildren(_, _, _, _, _)

\* the loops `for (let i = 0; i < scripts.len(); i++)`, from index i on
collectChildren(scripts, i, acc, path, label) ==
    IF i >= Len(scripts) THEN acc
    ELSE collectChildren(scripts, i + 1,
             collectScriptInfo(scripts[i + 1], acc, Append(path, <<label, i>>)),
             path, label)

collectScriptInfo(nativeScript, acc, path) ==
    LET kind == nativeScript.kind
    IN
    CASE kind = K.SCRIPT_PUBKEY ->
            LET hex == toLowerCase(nativeScript.keyHash)
            IN  [acc EXCEPT !.keys = SetAdd(@, hex),
                            !.tree = Append(@, TreeNode("pubkey", hex, 0, 0, 0, path))]
      [] kind = K.SCRIPT_ALL ->
            collectChildren(nativeScript.scripts, 0,
                [acc EXCEPT !.tree = Append(@, TreeNode("all", "", 0, 0, 0, path))],
                path, <<"all", 0>>)
      [] kind = K.SCRIPT_ANY ->
            collectChildren(nativeScript.scripts, 0,
                [acc EXCEPT !.tree = Append(@, TreeNode("any", "", 0, 0, 0, path))],
                path, <<"any", 0>>)
      [] kind = K.SCRIPT_N_OF_K ->
            collectChildren(nativeScript.scripts, 0,
                [acc EXCEPT !.thresholds = Append(@, nativeScript.n),
                            !.tree = Append(@, TreeNode("atLeast", "", nativeScript.n,
                                                Len(nativeScript.scripts), 0, path))],
                path, <<"atLeast", nativeScript.n>>)
      [] kind = K.SCRIPT_INVALID_BEFORE ->
            [acc EXCEPT !.invalidBefore =
                            Slot(MaxOf(IF @.isNull THEN 0 ELSE @.slot, nativeScript.slot)),
                        !.tree = Append(@, TreeNode("invalid_before", "", 0, 0,
                                            nativeScript.slot, path))]
      [] kind = K.SCRIPT_INVALID_HEREAFTER ->
            [acc EXCEPT !.invalidHereafter =
                            Slot(MinOf(IF @.isNull THEN MAX_SAFE_INTEGER ELSE @.slot,
                                       nativeScript.slot)),
                        !.tree = Append(@, TreeNode("invalid_hereafter", "", 0, 0,
                                            nativeScript.slot, path))]
      [] OTHER ->
            [acc EXCEPT !.tree = Append(@, TreeNode("unknown", "", 0, 0, 0, path))]

\* Math.max(...thresholds) on a non-empty array
RECURSIVE MathMin(_)
MathMin(thresholds) ==
    IF Len(thresholds) = 1 THEN thresholds[1]
    ELSE MinOf(Head(thresholds), MathMin(Tail(thresholds)))
RECURSIVE MathMax(_)
MathMax(thresholds) ==
    IF Len(thresholds) = 1 THEN thresholds[1]
    ELSE MaxOf(Head(thresholds), MathMax(Tail(thresholds)))

deriveSummary(ns) ==
    LET info == collectScriptInfo(ns, NoInfo, <<>>)
        requiredKeyHashes == info.keys
        hasAny == \E i \in DOMAIN info.tree : info.tree[i].type = "any"
        mRequired == IF Len(info.thresholds) > 0 THEN MathMax(info.thresholds)
                     ELSE IF hasAny THEN 1 ELSE Len(requiredKeyHashes)
    IN  [mRequired |-> mRequired,
         totalKeys |-> Len(requiredKeyHashes),
         requiredKeyHashes |-> requiredKeyHashes,
         hasTimeConstraints |-> ~info.invalidBefore.isNull \/ ~info.invalidHereafter.isNull,
         invalidBefore |-> info.invalidBefore,
         invalidHereafter |-> IF info.invalidHereafter = Slot(MAX_SAFE_INTEGER)
                                  THEN Null ELSE info.invalidHereafter,
         structure |-> info.tree]

\* the scripts handed to the analyzer: leaves, containers of up to
\* MaxChildren leaves, and containers of up to MaxChildren of a few of those
MaxChildren == 2
Thresholds == {1, 2, 3}
Leaves ==
    { ScriptPubkey("a"), ScriptPubkey("b"), ScriptPubkey("c"), TimelockStart(10),
      TimelockExpiry(20), TimelockExpiry(MAX_SAFE_INTEGER), ScriptUnknown }
Containers(children) ==
    UNION { {ScriptAll(c), ScriptAny(c)} \cup {ScriptNOfK(n, c) : n \in Thresholds} :
               c \in SeqsUpTo(children, MaxChildren) }
Subtrees ==
    { ScriptPubkey("a"), ScriptPubkey("b"), TimelockStart(30), TimelockExpiry(5),
      ScriptAll(<<ScriptPubkey("a"), ScriptPubkey("c")>>),
      ScriptAny(<<ScriptPubkey("b"), ScriptPubkey("c")>>),
      ScriptNOfK(1, <<ScriptPubkey("a"), ScriptPubkey("b")>>),
      ScriptNOfK(3, <<ScriptPubkey("c")>>),
      ScriptAll(<<TimelockStart(10), TimelockExpiry(20)>>) }
NativeScripts == Leaves \cup Containers(Leaves) \cup Containers(Subtrees)

NoSummary == deriveSummary(ScriptAll(<<>>))
NoAnalysis == [phase |-> "none", script |-> ScriptAll(<<>>), summary |-> NoSummary]

----------------------------------------------------------------------------
(* The state machine                                                       *)

EmptyStore == [t \in {} |-> NoTx]

Inflight == awaiting["t1"] + awaiting["t2"]

Init ==
    /\ variant \in Variants
    /\ txs = EmptyStore
    /\ latestSession = NoSession
    /\ awaiting = [t \in TxIds |-> 0]
    /\ last = Reply("none", "none", 0, "")
    /\ creating = NoBuild
    /\ analysis = NoAnalysis

Create ==
    \E cfg \in CreateConfigs(variant) :
      \E build \in BuildOutcomes(variant, cfg) :
        LET r == postCreate(variant, txs, latestSession, cfg, build)
        IN  /\ txs' = r.txs
            /\ latestSession' = r.latestSession
            /\ last' = r.resp
            /\ UNCHANGED <<analysis, creating, variant, awaiting>>

\* GET /api/status/:txId
GetStatus ==
    \E txId \in TxIds :
        /\ last' = IF txId \notin DOMAIN txs
                       THEN Reply("status", txId, 404, "not_found")
                       ELSE LET s == status(txs, txId)
                            IN  [Reply("status", txId, 200, "") EXCEPT
                                     !.required = s.m, !.keys = s.collected]
        /\ UNCHANGED <<analysis, creating, variant, txs, latestSession, awaiting>>

\* GET /api/txbody/:txId
GetTxBody ==
    \E txId \in TxIds :
        /\ last' = IF txId \notin DOMAIN txs
                       THEN Reply("txbody", txId, 404, "not_found")
                       ELSE Reply("txbody", txId, 200, "")
        /\ UNCHANGED <<analysis, creating, variant, txs, latestSession, awaiting>>

\* GET /api/witnesses/:txId (not routed by src/server.js)
GetWitnesses ==
    \E txId \in TxIds :
        /\ variant # "env"
        /\ last' = IF txId \notin DOMAIN txs
                       THEN Reply("witnesses", txId, 404, "not_found")
                       ELSE [Reply("witnesses", txId, 200, "") EXCEPT
                                 !.required = getTxRecord(txs, txId).m,
                                 !.keys = MapKeyList(getTxRecord(txs, txId).witnesses)]
        /\ UNCHANGED <<analysis, creating, variant, txs, latestSession, awaiting>>

\* POST /api/witness
Witness ==
    \E txId \in TxIds, req \in WitnessRequests :
        LET r == postWitness(variant, txs, txId, req.signerKeyHashHex, req.witnessHex)
        IN  /\ txs' = r.txs
            /\ last' = r.resp
            /\ UNCHANGED <<analysis, creating, variant, latestSession, awaiting>>

ResetKeepsLatest ==
    \E txId \in TxIds \cup {"none"} :
        /\ variant # "env"
        /\ txs' = IF txId # "none" THEN clearTx(txs, txId) ELSE txs
        /\ last' = Reply("reset", txId, 200, "")
        /\ UNCHANGED <<analysis, creating, variant, awaiting, latestSession>>

\* POST /api/reset (not routed by src/server.js)
Reset ==
    \E txId \in TxIds \cup {"none"} :
        /\ variant # "env"
        /\ txs' = IF txId # "none" THEN clearTx(txs, txId) ELSE txs
        /\ latestSession' = NoSession
        /\ last' = Reply("reset", txId, 200, "")
        /\ UNCHANGED <<analysis, creating, variant, awaiting>>

\* POST /api/submit until it responds or suspends at the gateway call
Submit ==
    \E txId \in TxIds :
        LET r == postSubmit(txs, txId)
        IN  /\ r.call => Inflight < MaxInflight
            /\ awaiting' = IF r.call THEN [awaiting EXCEPT ![txId] = @ + 1] ELSE awaiting
            /\ last' = r.resp
            /\ UNCHANGED <<analysis, creating, variant, txs, latestSession>>

\* bf.submitTx resolved: clearTx, then the txHash is returned
SubmitAccepted ==
    \E txId \in TxIds :
        /\ awaiting[txId] > 0
        /\ awaiting' = [awaiting EXCEPT ![txId] = @ - 1]
        /\ txs' = clearTx(txs, txId)
        /\ last' = [Reply("submit", txId, 200, "") EXCEPT !.txHash = txId]
        /\ UNCHANGED <<analysis, creating, variant, latestSession>>

SubmitRejectedClears ==
    \E txId \in TxIds :
        /\ awaiting[txId] > 0
        /\ awaiting' = [awaiting EXCEPT ![txId] = @ - 1]
        /\ txs' = clearTx(txs, txId)
        /\ last' = Reply("submit", txId, 500, "submit_failed")
        /\ UNCHANGED <<analysis, creating, variant, latestSession>>

\* bf.submitTx rejected: the catch block answers submit_failed
SubmitRejected ==
    \E txId \in TxIds :
        /\ awaiting[txId] > 0
        /\ awaiting' = [awaiting EXCEPT ![txId] = @ - 1]
        /\ last' = Reply("submit", txId, 500, "submit_failed")
        /\ UNCHANGED <<analysis, creating, variant, txs, latestSession>>

Next ==
    \/ Create
    \/ GetStatus
    \/ GetTxBody
    \/ GetWitnesses
    \/ Witness
    \/ Reset
    \/ Submit
    \/ SubmitAccepted
    \/ SubmitRejected

Spec == Init /\ [][Next]_vars

----------------------------------------------------------------------------
(* POST /api/create with the builder it calls                              *)

\* a create request has arrived on a fresh server: the builder linked in,
\* what the gateway will return, and the request
InitBuild ==
    /\ variant \in Variants
    /\ txs = EmptyStore
    /\ latestSession = NoSession
    /\ awaiting = [t \in TxIds |-> 0]
    /\ last = Reply("none", "none", 0, "")
    /\ analysis = NoAnalysis
    /\ creating \in { [NoBuild EXCEPT !.phase = "request", !.builder = b, !.protocol = pp,
                                   !.utxos = u, !.req = r] :
                      b \in {"fixed", "buffered"}, pp \in ProtocolParams,
                      u \in SeqsUpTo(UtxoChoices, MaxUtxos), r \in CreateRequests }

\* the handler from the request to its response: the parameters check,
\* buildUnsignedTx, createTxRecord
CreateBuilt ==
    \E cfg \in CreateConfigs(variant) :
        LET res == buildUnsignedTx(creating.builder, creating.protocol, creating.utxos,
                                   [mode |-> creating.req.mode,
                                    destAddress |-> creating.req.destAddress,
                                    outputs |-> creating.req.outputs,
                                    mRequired |-> cfg.mRequired])
            artifact == IF res.ok THEN BuildArtifact("body1", "script") ELSE BuildThrew
            r == postCreate(variant, txs, latestSession, cfg, artifact)
        IN  /\ creating.phase = "request"
            /\ creating' = [creating EXCEPT !.phase = "done", !.mRequired = cfg.mRequired,
                                      !.res = IF r.resp.error = "missing_params"
                                                  THEN NoBuildResult ELSE res]
            /\ txs' = r.txs
            /\ latestSession' = r.latestSession
            /\ last' = r.resp
            /\ UNCHANGED <<variant, awaiting, analysis>>

NextBuild == CreateBuilt

SpecBuild == InitBuild /\ [][NextBuild]_vars

----------------------------------------------------------------------------
(* deriveSummary on the configured payment script (part_001:487)           *)

InitScript ==
    /\ variant = "derived"
    /\ txs = EmptyStore
    /\ latestSession = NoSession
    /\ awaiting = [t \in TxIds |-> 0]
    /\ last = Reply("none", "none", 0, "")
    /\ creating = NoBuild
    /\ analysis \in { [NoAnalysis EXCEPT !.phase = "script", !.script = ns] :
                         ns \in NativeScripts }

Summarize ==
    /\ analysis.phase = "script"
    /\ analysis' = [analysis EXCEPT !.phase = "done",
                                    !.summary = deriveSummary(analysis.script)]
    /\ UNCHANGED <<variant, txs, latestSession, awaiting, last, creating>>

NextScript == Summarize

SpecScript == InitScript /\ [][NextScript]_vars

----------------------------------------------------------------------------
(* The server while its signers sign: no reset, no create on a present id  *)

\* the witness set the holder of key hash k makes with that key
SignerWitness(k) ==
    CASE k = "a" -> wsA1
      [] k = "b" -> wsB1
      [] k = "c" -> wsC1

\* POST /api/create answered for an id that is not in the store
CreateFresh ==
    \E cfg \in CreateConfigs(variant) :
      \E build \in BuildOutcomes(variant, cfg) :
        LET r == postCreate(variant, txs, latestSession, cfg, build)
        IN  /\ build.ok => build.txId \notin DOMAIN txs
            /\ txs' = r.txs
            /\ latestSession' = r.latestSession
            /\ last' = r.resp
            /\ UNCHANGED <<analysis, creating, variant, awaiting>>

\* POST /api/witness by the allow-listed signer k of session txId, with the
\* witness made with k's key
SignerUploads(txId, k) ==
    /\ txId \in DOMAIN txs
    /\ k \in Range(txs[txId].signersKeyHashes)
    /\ LET r == postWitness(variant, txs, txId, NoSigner, SignerWitness(k))
       IN  /\ txs' = r.txs
           /\ last' = r.resp
           /\ UNCHANGED <<analysis, creating, variant, latestSession, awaiting>>

SignerUpload == \E txId \in TxIds, k \in {"a", "b", "c"} : SignerUploads(txId, k)

NextLive ==
    \/ CreateFresh
    \/ SignerUpload
    \/ Witness
    \/ Submit
    \/ SubmitAccepted
    \/ SubmitRejected

\* every allow-listed signer of a session gets to upload: a request that
\* has arrived is served to its end by the event loop
SignersSign == \A txId \in TxIds, k \in {"a", "b", "c"} : WF_vars(SignerUploads(txId, k))

SpecLive == Init /\ [][NextLive]_vars /\ SignersSign

----------------------------------------------------------------------------
(* Properties                                                              *)

Collected(t) == Len(txs[t].witnesses)

\* the step just taken served a POST /api/submit for t up to its response
\* or its gateway call (not a continuation after the gateway answered)
SubmitRequestStep(t) ==
    /\ last'.op = "submit"
    /\ last'.txId = t
    /\ awaiting'[t] >= awaiting[t]

\* the step just taken is the continuation of a submit for t after the
\* gateway answered
SubmitContinuationStep(t) ==
    /\ last'.op = "submit"
    /\ last'.txId = t
    /\ awaiting'[t] < awaiting[t]

\* C1: in every reachable state the keys of every session's witness map are
\* members of that session's allow-list.
C1_WitnessKeysAllowed ==
    \A t \in DOMAIN txs :
        MapKeys(txs[t].witnesses) \subseteq Range(txs[t].signersKeyHashes)

\* a witness upload carrying a key outside the allow-list was served and
\* the session holds a witness
C1_Witness ==
    /\ variant = "derived"
    /\ last.op = "witness"
    /\ last.status = 200
    /\ last.ignored = <<"z">>
    /\ last.txId \in DOMAIN txs
    /\ txs[last.txId].witnesses # <<>>

\* the key hashes of the key-witnesses inside a stored witness, whichever
\* of the two shapes it has
SignersOf(witnessHex) == {KeyHashOf(witnessHex.vkeys[i].vkey) : i \in DOMAIN witnessHex.vkeys}

\* the allow-listed keys of session t that are counted and whose stored
\* witness holds a key-witness made with that very key
ProperlySigned(t) ==
    {k \in Range(txs[t].signersKeyHashes) :
        /\ MapHas(txs[t].witnesses, k)
        /\ k \in SignersOf(MapGet(txs[t].witnesses, k))}

\* C2: whenever a session has collected >= m, at least m distinct
\* allow-listed keys have each supplied a key-witness made with that key
\* (a declared signer key hash never makes another key's witness count).
C2_ReadyMeansSignedByM ==
    \A t \in DOMAIN txs :
        Collected(t) >= txs[t].m => Cardinality(ProperlySigned(t)) >= txs[t].m

\* C3: a submit on an existing session with fewer than m witnesses answers
\* not_enough_witnesses with (collected, required), calls no gateway and
\* leaves the store as it was.
C3_SubmitBelowThreshold ==
    [][\A t \in TxIds :
          (/\ t \in DOMAIN txs
           /\ Collected(t) < txs[t].m
           /\ SubmitRequestStep(t))
          => /\ last'.status = 400
             /\ last'.error = "not_enough_witnesses"
             /\ last'.collected = Collected(t)
             /\ last'.required = txs[t].m
             /\ last'.sent = NoTx
             /\ awaiting' = awaiting
             /\ txs' = txs]_vars

\* a submit was refused with one witness short of the threshold
C3_Witness ==
    /\ last.op = "submit"
    /\ last.error = "not_enough_witnesses"
    /\ last.collected >= 1
    /\ last.required = last.collected + 1
    /\ last.txId \in DOMAIN txs
    /\ Collected(last.txId) = last.collected

\* C4: when the gateway accepts, the session is gone from the store when
\* the txHash is returned; a status, txbody, witnesses, witness or submit
\* request for an id that is not in the store answers not_found and leaves
\* it absent; only a create brings an absent id back.
C4_AcceptedSubmitRemovesSession ==
    [][\A t \in TxIds :
          /\ (SubmitContinuationStep(t) /\ last'.status = 200)
                => (t \notin DOMAIN txs' /\ last'.txHash = t)
          /\ (/\ t \notin DOMAIN txs
              /\ last'.txId = t
              /\ last'.op \in {"status", "txbody", "witnesses", "witness"})
                => (last'.status = 404 /\ t \notin DOMAIN txs')
          /\ (t \notin DOMAIN txs /\ SubmitRequestStep(t))
                => (last'.status = 404 /\ t \notin DOMAIN txs' /\ awaiting' = awaiting)
          /\ (t \notin DOMAIN txs /\ t \in DOMAIN txs')
                => last'.op = "create"]_vars

\* the gateway accepted a submit: the txHash was returned and the session
\* is not in the store
C4_Witness ==
    /\ last.op = "submit"
    /\ last.status = 200
    /\ last.txHash = last.txId
    /\ last.txId \notin DOMAIN txs

\* C5: a submit that does not end in acceptance (the gateway rejects, or
\* assembling fails) changes nothing in the store, neither when it is
\* issued nor when the rejection arrives.
C5_RejectedSubmitKeepsSession ==
    [][\A t \in TxIds :
          (\/ SubmitContinuationStep(t) /\ last'.status = 500
           \/ SubmitRequestStep(t) /\ last'.status \in {0, 500})
          => (txs' = txs /\ latestSession' = latestSession)]_vars

\* the gateway rejected a submit and the session is still there, ready
C5_Witness ==
    /\ last.op = "submit"
    /\ last.status = 500
    /\ last.txId \in DOMAIN txs
    /\ Collected(last.txId) >= txs[last.txId].m
    /\ postSubmit(txs, last.txId).call

\* C6: for one session, at most one submit is at the gateway at any time.
C6_AtMostOneGatewayCall ==
    \A t \in TxIds : awaiting[t] <= 1

\* C7: a reset served while a submit for the session awaits the gateway
\* does not remove the session.
C7_ResetWaitsForSubmit ==
    [][\A t \in TxIds :
          (awaiting[t] > 0 /\ t \in DOMAIN txs /\ last'.op = "reset")
          => t \in DOMAIN txs']_vars

\* C8: the witness upload that brings a session to its threshold makes the
\* server call the gateway and return the txHash.
C8_AutoSubmitAtThreshold ==
    [][\A t \in TxIds :
          (/\ last'.op = "witness"
           /\ last'.txId = t
           /\ t \in DOMAIN txs
           /\ Collected(t) < txs[t].m
           /\ t \in DOMAIN txs'
           /\ Len(txs'[t].witnesses) >= txs'[t].m)
          => (awaiting'[t] = awaiting[t] + 1 /\ last'.txHash # "none")]_vars

C11_AcceptedAndIgnored ==
    \A t \in DOMAIN txs, req \in WitnessRequests :
        LET R == Range(txs[t].signersKeyHashes)
            W == SignersOf(req.witnessHex)
            before == txs[t].witnesses
            r == postWitness(variant, txs, t, req.signerKeyHashHex, req.witnessHex)
            after == r.txs[t].witnesses
        IN  (req.witnessHex.shape # "bad" /\ W \cap R # {}) =>
                /\ Range(r.resp.accepted) = W \cap R
                /\ Range(r.resp.ignored) = W \ R
                /\ MapKeys(after) = MapKeys(before) \cup (W \cap R)
                /\ r.resp.collected = Cardinality(MapKeys(before) \cup (W \cap R))

\* C12: a witness blob none of whose key-witnesses is made with an
\* allow-listed key (or that holds no key-witness at all) is refused as a
\* signer that is not allowed, and the store stays as it was.
C12_NoAcceptedKeyRefused ==
    \A t \in DOMAIN txs, req \in WitnessRequests :
        LET R == Range(txs[t].signersKeyHashes)
            W == SignersOf(req.witnessHex)
            r == postWitness(variant, txs, t, req.signerKeyHashHex, req.witnessHex)
        IN  (req.witnessHex.shape # "bad" /\ W \cap R = {}) =>
                /\ r.resp.error \in {"signer_not_allowed", "signer_not_in_required_set"}
                /\ r.txs = txs

\* C13: every value stored under key hash kh is a witness set holding
\* exactly one key-witness, whose vkey hashes to kh, and no other field.
C13_StoredWitnessNormalised ==
    \A t \in DOMAIN txs :
        \A i \in DOMAIN txs[t].witnesses :
            LET e == txs[t].witnesses[i]
            IN  /\ e.v.shape = "ws"
                /\ Len(e.v.vkeys) = 1
                /\ KeyHashOf(e.v.vkeys[1].vkey) = e.k
                /\ ~e.v.others

\* the build of the create request has been served
Built == creating.phase = "done" /\ last.error # "missing_params"

\* the request is one the builder accepts as to mode and destination
WellFormed ==
    \/ creating.req.mode = "explicit"
    \/ creating.req.mode = "sendAll" /\ creating.req.destAddress # "null"

\* the (policy, name) pairs present in an asset map
AssetIds(m) == UNION {{<<pid, nm>> : nm \in DOMAIN m[pid]} : pid \in DOMAIN m}

\* C14: in every build that succeeds, the input coin equals the output
\* coin plus the declared fee, and for every (policy, name) the input
\* quantity equals the output quantity.
C14_Conservation ==
    (Built /\ creating.res.ok) =>
        LET in == creating.res.inputs
            out == OutputsTotal(creating.res.outputs)
        IN  /\ in.coin = out.coin + creating.res.fee
            /\ \A pn \in AssetIds(in.assets) \cup AssetIds(out.assets) :
                  QtyOf(in.assets, pn[1], pn[2]) = QtyOf(out.assets, pn[1], pn[2])

\* what the explicit outputs of the request ask for, asset by asset
RECURSIVE AssetsAskedBy(_)
AssetsAskedBy(outputs) ==
    IF outputs = <<>> THEN <<>>
    ELSE Head(outputs).assets \o AssetsAskedBy(Tail(outputs))

Requested == jsAssetsFromOutputSpec(AssetsAskedBy(creating.req.outputs))

OverAsked ==
    \E pn \in AssetIds(Requested) :
        QtyOf(Requested, pn[1], pn[2])
            > QtyOf(TotalValue(creating.utxos).assets, pn[1], pn[2])

\* C15: an explicit build whose outputs ask, for some asset, for more than
\* the inputs carry (none at all included) is refused for want of tokens
\* (or of ADA, when that is short as well), and no session is created.
C15_OverAskedTokensRefused ==
    (Built /\ creating.req.mode = "explicit" /\ OverAsked) =>
        /\ ~creating.res.ok
        /\ creating.builder = "fixed" =>
              creating.res.error \in {"insufficient_tokens", "insufficient_ada"}
        /\ last.status = 500
        /\ txs = EmptyStore

\* C16: in every build that succeeds, every output that carries assets
\* has at least 2,000,000 lovelace.
C16_TokenOutputsAtFloor ==
    (Built /\ creating.res.ok) =>
        \A i \in DOMAIN creating.res.outputs :
            LET o == creating.res.outputs[i]
            IN  AssetIds(o.assets) # {} => o.coin >= 2000000

\* a build succeeded whose request asked for a token output with no
\* lovelace, and whose change carries tokens as well
C16_Witness ==
    /\ Built
    /\ creating.res.ok
    /\ \E i \in DOMAIN creating.req.outputs :
          /\ creating.req.outputs[i].lovelace = 0
          /\ creating.res.outputs[i].coin = 2000000
          /\ AssetIds(creating.res.outputs[i].assets) # {}
    /\ LET c == creating.res.outputs[Len(creating.res.outputs)]
       IN  c.address = "msig" /\ AssetIds(c.assets) # {}

\* C17: in every build that succeeds, the declared fee is at least the
\* linear minimum fee of the final body plus min_fee_a * 300 * m_required.
C17_FeeCoversMinimumAndBuffer ==
    (Built /\ creating.res.ok) =>
        creating.res.fee >=
            min_fee(creating.protocol, creating.res.nInputs, creating.res.outputs)
                + creating.protocol.min_fee_a * 300 * creating.mRequired

C19_SweepOutputs ==
    (Built /\ creating.res.ok /\ creating.req.mode = "sendAll") =>
        LET outs == creating.res.outputs
            in == creating.res.inputs
            rest == in.coin - 2000000 - creating.res.fee
        IN  /\ Len(outs) = (IF rest > 0 THEN 2 ELSE 1)
            /\ outs[1] = [address |-> creating.req.destAddress, coin |-> 2000000,
                          assets |-> in.assets]
            /\ rest > 0 =>
                  outs[2] = [address |-> creating.req.destAddress, coin |-> rest,
                             assets |-> NoAssets]
            /\ \A i \in DOMAIN outs : outs[i].address = "dest"

\* a sweep of two UTxOs with tokens succeeded with a change output
C19_Witness ==
    /\ Built
    /\ creating.res.ok
    /\ creating.req.mode = "sendAll"
    /\ Len(creating.utxos) = 2
    /\ Len(creating.res.outputs) = 2
    /\ AssetIds(creating.res.outputs[1].assets) # {}
    /\ creating.res.outputs[2].coin > 0

\* every node of a script tree
RECURSIVE NodesOf(_)
NodesOf(ns) == {ns} \cup UNION {NodesOf(ns.scripts[i]) : i \in DOMAIN ns.scripts}

\* C20: the derived m_required is the largest n of the AtLeast nodes of
\* the tree if it has any, else 1 if it has an Any node, else the number
\* of distinct key hashes of its pubkey nodes.
C20_MRequiredRule ==
    analysis.phase = "done" =>
        LET nodes == NodesOf(analysis.script)
            ns == {x.n : x \in {y \in nodes : y.kind = K.SCRIPT_N_OF_K}}
            keys == {x.keyHash : x \in {y \in nodes : y.kind = K.SCRIPT_PUBKEY}}
        IN  analysis.summary.mRequired =
                (IF ns # {} THEN CHOOSE n \in ns : \A o \in ns : o <= n
                 ELSE IF \E x \in nodes : x.kind = K.SCRIPT_ANY THEN 1
                 ELSE Cardinality(keys))

\* a tree with a 1-of and, below it, a 3-of node, an Any node and three
\* pubkey leaves of two keys was summarised to m_required = 3
C20_Witness ==
    /\ analysis.phase = "done"
    /\ analysis.script.kind = K.SCRIPT_N_OF_K
    /\ analysis.script.n = 1
    /\ \E x \in NodesOf(analysis.script) : x.kind = K.SCRIPT_N_OF_K /\ x.n = 3
    /\ \E x \in NodesOf(analysis.script) : x.kind = K.SCRIPT_ANY
    /\ analysis.summary.mRequired = 3
    /\ analysis.summary.totalKeys = 2

\* C21: every summary has 1 <= m_required <= the number of distinct key
\* hashes of the pubkey nodes of the tree.
C21_MRequiredWithinKeys ==
    analysis.phase = "done" =>
        LET keys == {x.keyHash : x \in {y \in NodesOf(analysis.script) :
                                           y.kind = K.SCRIPT_PUBKEY}}
        IN  /\ 1 <= analysis.summary.mRequired
            /\ analysis.summary.mRequired <= Cardinality(keys)

\* C22: a status, txbody, witnesses, witness or submit request naming an id
\* that is not in the store answers 404 not_found; the store, the latest
\* session and the gateway calls in flight stay as they were (no record is
\* created, no transaction is handed to the gateway).
C22_AbsentSessionNotFound ==
    [][\A t \in TxIds :
          (/\ t \notin DOMAIN txs
           /\ last'.txId = t
           /\ \/ last'.op \in {"status", "txbody", "witnesses", "witness"}
              \/ SubmitRequestStep(t))
          => /\ last'.status = 404
             /\ last'.error = "not_found"
             /\ last'.sent = NoTx
             /\ txs' = txs
             /\ latestSession' = latestSession
             /\ awaiting' = awaiting]_vars

\* a witness upload for an id that is not in the store was answered
\* not_found while another session, with a witness, is in the store
C22_Witness ==
    /\ last.op = "witness"
    /\ last.error = "not_found"
    /\ last.txId \notin DOMAIN txs
    /\ \E t \in DOMAIN txs : txs[t].witnesses # <<>>

\* C23: a session enters the store only by a successful create; a submit
\* is refused for want of witnesses exactly when the size of the witness
\* map is below m; while a session stays in the store its number of
\* witnesses never decreases; and an id that is not in the store is not
\* brought back by a witness, status, read or submit request.
C23_Lifecycle ==
    [][\A t \in TxIds :
          /\ (t \notin DOMAIN txs /\ t \in DOMAIN txs')
                => (last'.op = "create" /\ last'.status = 200)
          /\ (t \in DOMAIN txs /\ SubmitRequestStep(t))
                => (last'.error = "not_enough_witnesses" <=> Collected(t) < txs[t].m)
          /\ (t \in DOMAIN txs /\ t \in DOMAIN txs')
                => Len(txs'[t].witnesses) >= Collected(t)
          /\ (t \notin DOMAIN txs /\ last'.op # "create")
                => t \notin DOMAIN txs']_vars

\* the place of a key hash in the order of the hex strings
HexRank(kh) ==
    CASE kh = "a" -> 1
      [] kh = "b" -> 2
      [] kh = "c" -> 3
      [] kh = "z" -> 4

\* C24: whenever a submit would hand a transaction to the gateway, the
\* key-witnesses of that transaction are in the order of their key hashes,
\* whatever the order in which they were uploaded.
C24_WitnessesSortedByKeyHash ==
    \A t \in DOMAIN txs :
        LET r == postSubmit(txs, t)
            vkeys == r.resp.sent.vkeys
        IN  r.call =>
                \A i, j \in DOMAIN vkeys :
                    i < j => HexRank(KeyHashOf(vkeys[i].vkey))
                                < HexRank(KeyHashOf(vkeys[j].vkey))

\* C25: a submit on a session at its threshold one of whose stored
\* witnesses does not parse as a witness set answers submit_failed and
\* removes the session from the store.
C25_UnparseableWitnessClearsSession ==
    [][\A t \in TxIds :
          (/\ t \in DOMAIN txs
           /\ Collected(t) >= txs[t].m
           /\ \E i \in DOMAIN txs[t].witnesses :
                 ~WitnessSetFromBytes(txs[t].witnesses[i].v).ok
           /\ SubmitRequestStep(t))
          => /\ last'.error = "submit_failed"
             /\ t \notin DOMAIN txs']_vars

\* C26: a witness, submit, status, read or reset request that names one
\* session, and the continuation of a submit for it, leave the record of
\* every other session as it was.
C26_SessionsIndependent ==
    [][\A a, b \in TxIds :
          (/\ a # b
           /\ b \in DOMAIN txs
           /\ last'.txId = a
           /\ last'.op \in {"witness", "submit", "status", "txbody", "witnesses", "reset"})
          => (b \in DOMAIN txs' /\ txs'[b] = txs[b])]_vars

\* a session was removed by an accepted submit that names it while the
\* other session holds a witness
C26_Witness ==
    /\ last.op = "submit"
    /\ last.status = 200
    /\ last.txHash = last.txId
    /\ last.txId \notin DOMAIN txs
    /\ \E b \in DOMAIN txs : txs[b].witnesses # <<>>

\* C27: while a session stays in the store its body, unsigned transaction,
\* script, m and allow-list stay the same; its record changes only by an
\* accepted witness upload that names it and leaves the store only by a
\* reset or an accepted submit; a status or read request, a refused
\* witness upload and a submit that is not accepted change nothing.
C27_RecordFrame ==
    [][\A t \in DOMAIN txs :
          /\ t \in DOMAIN txs' =>
                /\ txs'[t].txBodyHex = txs[t].txBodyHex
                /\ txs'[t].txHex = txs[t].txHex
                /\ txs'[t].scriptHex = txs[t].scriptHex
                /\ txs'[t].m = txs[t].m
                /\ txs'[t].signersKeyHashes = txs[t].signersKeyHashes
          /\ (t \in DOMAIN txs' /\ txs'[t] # txs[t])
                => (last'.op = "witness" /\ last'.txId = t /\ last'.status = 200)
          /\ t \notin DOMAIN txs'
                => \/ last'.op = "reset"
                   \/ last'.op = "submit" /\ last'.status = 200
          /\ \/ last'.op \in {"status", "txbody", "witnesses"}
             \/ last'.op = "witness" /\ last'.status # 200
             \/ last'.op = "submit" /\ last'.status # 200
             => txs' = txs]_vars

\* the outputs a successful build made for the request itself (the sweep
\* output, or one per requested output); a change output comes after them
RequestedCount ==
    IF creating.req.mode = "sendAll" THEN 1 ELSE Len(creating.req.outputs)

\* what is left of the inputs of a successful build after the requested
\* outputs and the fee: the coin, and whether any asset is left
LeftCoin ==
    creating.res.inputs.coin
        - OutputsTotal(SubSeq(creating.res.outputs, 1, RequestedCount)).coin
        - creating.res.fee

LeftHasAssets ==
    LET asked == OutputsTotal(SubSeq(creating.res.outputs, 1, RequestedCount)).assets
        in == creating.res.inputs.assets
    IN  \E pn \in AssetIds(in) : QtyOf(in, pn[1], pn[2]) > QtyOf(asked, pn[1], pn[2])

\* C28: a successful build has a change output exactly when coin or some
\* asset is left after the requested outputs and the fee; it is the last
\* output and goes to the multisig address in explicit mode and to the
\* destination in a sweep.
C28_ChangeOutput ==
    (Built /\ creating.res.ok) =>
        LET outs == creating.res.outputs
        IN  /\ Len(outs) = RequestedCount
                              + (IF LeftCoin > 0 \/ LeftHasAssets THEN 1 ELSE 0)
            /\ Len(outs) > RequestedCount =>
                  outs[Len(outs)].address =
                      (IF creating.req.mode = "explicit" THEN "msig"
                                                         ELSE creating.req.destAddress)

\* an explicit build with two requested outputs succeeded with a change
\* output to the multisig address that carries tokens
C28_Witness ==
    /\ Built
    /\ creating.res.ok
    /\ creating.req.mode = "explicit"
    /\ Len(creating.req.outputs) = 2
    /\ Len(creating.res.outputs) = 3
    /\ creating.res.outputs[3].address = "msig"
    /\ AssetIds(creating.res.outputs[3].assets) # {}

\* the coin a requested output is charged at: the floor when it carries
\* assets and asks for less
Charged(o) ==
    IF o.assets # <<>> /\ o.lovelace < 2000000 THEN 2000000 ELSE o.lovelace

RECURSIVE ChargedTotal(_)
ChargedTotal(outputs) ==
    IF outputs = <<>> THEN 0 ELSE Charged(Head(outputs)) + ChargedTotal(Tail(outputs))

\* the coin the request leaves for the change, and whether it leaves
\* assets for it
Residual ==
    TotalValue(creating.utxos).coin - ChargedTotal(creating.req.outputs) - 1000000

ResidualHasAssets ==
    LET in == TotalValue(creating.utxos).assets
    IN  \E pn \in AssetIds(in) : QtyOf(in, pn[1], pn[2]) > QtyOf(Requested, pn[1], pn[2])

\* C29: an explicit build of the fixed-fee builder whose inputs cover the
\* outputs and the fee and every asset asked for, and that leaves assets
\* for the change but less than 2,000,000 lovelace, is refused for a
\* change below the floor and creates no session; and in every build
\* that succeeds the outputs plus the fee do not exceed the input coin.
C29_ChangeBelowFloorRefused ==
    /\ (/\ Built
         /\ creating.builder = "fixed"
         /\ creating.req.mode = "explicit"
         /\ ~OverAsked
         /\ ResidualHasAssets
         /\ Residual >= 0
         /\ Residual < 2000000)
        => /\ ~creating.res.ok
           /\ creating.res.error = "change_below_min_ada"
           /\ last.status = 500
           /\ txs = EmptyStore
    /\ (Built /\ creating.res.ok)
        => OutputsTotal(creating.res.outputs).coin + creating.res.fee
              <= creating.res.inputs.coin

\* a build that left tokens and no lovelace at all for the change was
\* refused
C29_Witness ==
    /\ Built
    /\ creating.builder = "fixed"
    /\ creating.req.mode = "explicit"
    /\ ~OverAsked
    /\ ResidualHasAssets
    /\ Residual = 0
    /\ creating.res.error = "change_below_min_ada"
    /\ txs = EmptyStore

\* C30: the bump of a requested output keeps its assets, raises its coin
\* to the floor when it carries assets and asks for less, and leaves an
\* output without assets as it is, a coin of 0 included; bumping twice is
\* bumping once; the coin charged when the change is computed is the
\* bumped one, and a successful explicit build pays each requested output
\* its bumped coin and leaves inputs - bumped coins - fee for the change.
C30_BumpOfRequestedOutputs ==
    (Built /\ creating.req.mode = "explicit") =>
        LET outputs == creating.req.outputs
            n == Len(outputs)
            left == creating.res.inputs.coin - ChargedTotal(outputs) - creating.res.fee
        IN  /\ \A i \in DOMAIN outputs :
                  LET v == addAssetsToValue(outputs[i].lovelace, outputs[i].assets)
                      b == bumpAdaIfTokens(v)
                  IN  /\ b.assets = v.assets
                      /\ b.coin = Charged(outputs[i])
                      /\ outputs[i].assets = <<>> => b = v
                      /\ bumpAdaIfTokens(b) = b
                      /\ effectiveCoin(outputs[i].lovelace, v.assets) = b.coin
                      /\ creating.res.ok =>
                            /\ creating.res.outputs[i].coin = b.coin
                            /\ creating.res.outputs[i].assets = b.assets
            /\ creating.res.ok =>
                  IF Len(creating.res.outputs) > n
                      THEN creating.res.outputs[n + 1].coin = left
                      ELSE left = 0

\* a build succeeded that was asked for a token output with no lovelace
\* and for an output of 1,500,000 lovelace without assets, and made a
\* change output
C30_Witness ==
    /\ Built
    /\ creating.res.ok
    /\ ~OverAsked
    /\ creating.req.mode = "explicit"
    /\ \E i, j \in DOMAIN creating.req.outputs :
          /\ creating.req.outputs[i].lovelace = 0
          /\ creating.req.outputs[i].assets # <<>>
          /\ creating.res.outputs[i].coin = 2000000
          /\ creating.req.outputs[j].assets = <<>>
          /\ creating.res.outputs[j].coin = 1500000
    /\ Len(creating.res.outputs) = Len(creating.req.outputs) + 1

\* C31: every output of a successful build carries strictly positive
\* asset quantities only and no policy without assets, and a requested
\* output whose assets all have quantity 0 is built as a coin-only output
\* with the coin it asked for.
C31_NoZeroQuantities ==
    (Built /\ creating.res.ok) =>
        /\ \A i \in DOMAIN creating.res.outputs :
              LET m == creating.res.outputs[i].assets
              IN  \A pid \in DOMAIN m :
                      /\ DOMAIN m[pid] # {}
                      /\ \A nm \in DOMAIN m[pid] : m[pid][nm] > 0
        /\ creating.req.mode = "explicit" =>
              \A i \in DOMAIN creating.req.outputs :
                  LET o == creating.req.outputs[i]
                  IN  (\A k \in DOMAIN o.assets : o.assets[k].quantity = 0)
                          => creating.res.outputs[i].coin = o.lovelace

\* C32: a create that produces the id of a session already in the store
\* replaces that session's record by a fresh one whose witness map is
\* empty (collected is 0 again) and leaves every other session as it was.
C32_RecreateReplacesRecord ==
    [][(last'.op = "create" /\ last'.status = 200 /\ last'.txId \in DOMAIN txs) =>
          /\ DOMAIN txs' = DOMAIN txs
          /\ txs'[last'.txId].witnesses = <<>>
          /\ status(txs', last'.txId).collected = <<>>
          /\ txs'[last'.txId].m = last'.required
          /\ \A t \in DOMAIN txs \ {last'.txId} : txs'[t] = txs[t]]_vars

\* a create was answered for a session on which every gateway call the
\* server may hold is still pending, so that the session was Ready and has
\* not been removed since, and its witness map is empty now
C32_Witness ==
    /\ variant = "env"
    /\ last.op = "create"
    /\ last.status = 200
    /\ last.txId \in DOMAIN txs
    /\ awaiting[last.txId] = MaxInflight
    /\ txs[last.txId].witnesses = <<>>

\* C33: a create that fails (missing parameters, or a build that throws:
\* bad mode, sweep without destination, insufficient coin or tokens,
\* gateway error) leaves the store and the latest-session pointer exactly
\* as they were.
C33_FailedCreateChangesNothing ==
    [][(last'.op = "create" /\ last'.status # 200) =>
          (txs' = txs /\ latestSession' = latestSession)]_vars

\* a create has just failed on a server that holds a session with a
\* witness and whose pointer names it
C33_Witness ==
    /\ last.op = "create"
    /\ last.status = 500
    /\ latestSession # NoSession
    /\ latestSession.txId \in DOMAIN txs
    /\ txs[latestSession.txId].witnesses # <<>>

\* C34: a reset always answers ok; with an id it removes that session if
\* present and no other, with an unknown id or none it removes no session;
\* the latest-session pointer is null afterwards in every case.
C34_ResetRemovesOnlyNamed ==
    [][last'.op = "reset" =>
          /\ last'.status = 200
          /\ latestSession' = NoSession
          /\ DOMAIN txs' = DOMAIN txs \ {last'.txId}
          /\ \A t \in DOMAIN txs' : txs'[t] = txs[t]]_vars

\* a reset naming a session has been answered, that session is not in
\* the store and another session still holds its witnesses
C34_Witness ==
    /\ last.op = "reset"
    /\ last.txId \in TxIds
    /\ last.txId \notin DOMAIN txs
    /\ latestSession = NoSession
    /\ \E t \in DOMAIN txs : txs[t].witnesses # <<>>

\* C35: every session in the store has 1 <= m <= the number of distinct
\* key hashes of its allow-list, so that collected >= m can be reached.
C35_MWithinAllowList ==
    \A t \in DOMAIN txs :
        /\ 1 <= txs[t].m
        /\ txs[t].m <= Cardinality(Range(txs[t].signersKeyHashes))

\* the stored witnesses of a record, in the order of the map
StoredWitnesses(rec) == [i \in DOMAIN rec.witnesses |-> rec.witnesses[i].v]

C38_FinalTransaction ==
    (last.op = "submit" /\ last.error = "awaiting_gateway") =>
        LET rec == txs[last.txId]
            tx == last.sent
        IN  /\ tx.script = rec.scriptHex
            /\ tx.body = rec.txBodyHex
            /\ tx.vkeys = FlattenVkeys(StoredWitnesses(rec))
            /\ \A i, j \in DOMAIN tx.vkeys :
                   KeyHashOf(tx.vkeys[i].vkey) = KeyHashOf(tx.vkeys[j].vkey) => i = j
            /\ \A i \in DOMAIN tx.vkeys :
                   KeyHashOf(tx.vkeys[i].vkey) \in Range(rec.signersKeyHashes)

\* C39: whenever the latest-session pointer is not null, the session it
\* names is in the store.
C39_LatestSessionInStore ==
    latestSession # NoSession => latestSession.txId \in DOMAIN txs

\* the nodes of the analysed script of one kind
NodesOfKind(kind) == {n \in NodesOf(analysis.script) : n.kind = kind}

\* the largest and the smallest member of a non-empty set of slots
MaxSlot(slots) == CHOOSE s \in slots : \A o \in slots : o <= s
MinSlot(slots) == CHOOSE s \in slots : \A o \in slots : s <= o

\* C40: for every script the summary's key hashes are the set of the key
\* hashes of its pubkey leaves at any depth, without repetition;
\* invalidBefore is the largest slot of its InvalidBefore nodes and
\* invalidHereafter the smallest slot of its InvalidHereafter nodes, each
\* null exactly when there is no such node; and mRequired is computed from
\* the n-of-k, any and pubkey nodes alone, whatever unknown nodes there are.
C40_SummaryOfWalk ==
    analysis.phase = "done" =>
        LET s == analysis.summary
            pubkeys == {n.keyHash : n \in NodesOfKind(K.SCRIPT_PUBKEY)}
            befores == {n.slot : n \in NodesOfKind(K.SCRIPT_INVALID_BEFORE)}
            hereafters == {n.slot : n \in NodesOfKind(K.SCRIPT_INVALID_HEREAFTER)}
            ns == {n.n : n \in NodesOfKind(K.SCRIPT_N_OF_K)}
        IN  /\ Range(s.requiredKeyHashes) = pubkeys
            /\ Len(s.requiredKeyHashes) = Cardinality(pubkeys)
            /\ s.invalidBefore = IF befores = {} THEN Null ELSE Slot(MaxSlot(befores))
            /\ s.invalidHereafter =
                   IF hereafters = {} THEN Null ELSE Slot(MinSlot(hereafters))
            /\ s.mRequired = IF ns # {} THEN MaxSlot(ns)
                              ELSE IF NodesOfKind(K.SCRIPT_ANY) # {} THEN 1
                              ELSE Cardinality(pubkeys)

\* C36: while a session is neither reset nor created again and each of its
\* allow-listed signers uploads a witness made with their key, the session
\* comes to hold collected >= m (or has been submitted and removed), and a
\* submit served on a session with collected >= m is not refused with
\* not_enough_witnesses.
C36_SignersReachReady ==
    /\ \A t \in TxIds :
          (t \in DOMAIN txs) ~> (t \notin DOMAIN txs \/ Collected(t) >= txs[t].m)
    /\ [][\A t \in TxIds :
             (t \in DOMAIN txs /\ Collected(t) >= txs[t].m /\ SubmitRequestStep(t))
                 => last'.error # "not_enough_witnesses"]_vars

====
